---- MODULE Spec2Model ----
(***************************************************************************)
(* Model of rmaker_lib.node.Node (cli/rmaker_lib/node.py): the client of   *)
(* one remote node.  Every method builds one request, hands it to the      *)
(* transport (requests.get / requests.put), classifies the transport's     *)
(* outcome in its except clauses and interprets the response body.         *)
(*                                                                         *)
(* A call is two steps: the step that builds and issues the request (up to *)
(* the blocking transport call) and the step in which the transport call   *)
(* ends (an exception or a response) and the rest of the method runs.      *)
(* Several callers may be between the two steps at the same time.          *)
(***************************************************************************)
EXTENDS Naturals, Sequences, FiniteSets, TLC

VARIABLES
    client,     \* the Node object (or the failure of its construction)
    ctor,       \* the arguments of the last Node(nodeid, session) call
    user_id,    \* what configmanager.Config().get_user_id() returns now
    calls,      \* per caller: the call it is in, its request and its result
    mapped      \* history: a mapping request was issued on this client

vars == <<client, ctor, user_id, calls, mapped>>

-----------------------------------------------------------------------------
(* Inputs                                                                  *)

Callers == {"c1", "c2"}
SeqCallers == {"c1"}

\* The exceptions of the requests library a transport call may raise
\* before any response exists, and the status codes of its responses.
TransportExceptions ==
    { "requests.SSLError", "requests.ConnectionError",
      "requests.ProxyError", "requests.TooManyRedirects",
      "requests.ChunkedEncodingError" }
StatusCodes == {101, 200, 204, 304, 404, 500}

NodeIds == {"abcd1234"}
Tokens == {"tokA", "tokB"}
UserIds == {"u1", "u2"}
SecretKeys == {"abc123", "k"}
RequestIds == {"req-42"}
\* set_node_params(data): data is a one-entry dict {key: val}
ParamData == {[key |-> "power", val |-> "on"]}

\* A session either exposes the attribute id_token or does not.
Sessions == [has_id_token : {TRUE}, id_token : Tokens]
              \cup {[has_id_token |-> FALSE, id_token |-> ""]}

-----------------------------------------------------------------------------
(* External configuration read by every method                             *)

HOST == "https://api.host/"
CERT_FILE == "server_cert.pem"

-----------------------------------------------------------------------------
(* Python values as json.loads produces them.  t is the type; s holds a    *)
(* str / number / bool literal, m the items of a dict (pairs key, value;   *)
(* the values are strs), a the elements of a list (strs).                  *)

PyDict(m) == [t |-> "dict", s |-> "", m |-> m, a |-> <<>>]
PyList(a) == [t |-> "list", s |-> "", m |-> {}, a |-> a]
PyStr(s) == [t |-> "str", s |-> s, m |-> {}, a |-> <<>>]
PyInt(s) == [t |-> "int", s |-> s, m |-> {}, a |-> <<>>]
PyBool(s) == [t |-> "bool", s |-> s, m |-> {}, a |-> <<>>]
None == [t |-> "NoneType", s |-> "", m |-> {}, a |-> <<>>]
True == PyBool("True")

\* The response bodies the transport may deliver.
JsonBodies ==
    { "{}",
      "{\"status\": \"failure\"}",
      "{\"status\": \"success\"}",
      "{\"request_id\": \"req-42\"}",
      "{\"request_status\": \"confirmed\"}",
      "[\"a\"]",
      "[\"status\", \"request_id\", \"request_status\"]",
      "\"ok\"",
      "\"no status, request_id or request_status\"",
      "42",
      "true",
      "null" }
NonJsonBodies == {"", "<html>Bad Gateway</html>"}
Bodies == JsonBodies \cup NonJsonBodies

\* json.loads(text) / response.json(): ok = FALSE is a JSONDecodeError.
json_loads(text) ==
    CASE text = "{}" -> [ok |-> TRUE, val |-> PyDict({})]
      [] text = "{\"status\": \"failure\"}" ->
            [ok |-> TRUE, val |-> PyDict({<<"status", "failure">>})]
      [] text = "{\"status\": \"success\"}" ->
            [ok |-> TRUE, val |-> PyDict({<<"status", "success">>})]
      [] text = "{\"request_id\": \"req-42\"}" ->
            [ok |-> TRUE, val |-> PyDict({<<"request_id", "req-42">>})]
      [] text = "{\"request_status\": \"confirmed\"}" ->
            [ok |-> TRUE, val |-> PyDict({<<"request_status", "confirmed">>})]
      [] text = "[\"a\"]" -> [ok |-> TRUE, val |-> PyList(<<"a">>)]
      [] text = "[\"status\", \"request_id\", \"request_status\"]" ->
            [ok |-> TRUE,
             val |-> PyList(<<"status", "request_id", "request_status">>)]
      [] text = "\"ok\"" -> [ok |-> TRUE, val |-> PyStr("ok")]
      [] text = "\"no status, request_id or request_status\"" ->
            [ok |-> TRUE,
             val |-> PyStr("no status, request_id or request_status")]
      [] text = "42" -> [ok |-> TRUE, val |-> PyInt("42")]
      [] text = "true" -> [ok |-> TRUE, val |-> True]
      [] text = "null" -> [ok |-> TRUE, val |-> None]
      [] OTHER -> [ok |-> FALSE, val |-> None]

\* json.dumps of the mapping payload (a dict keeps its insertion order).
json_dumps_payload(p) ==
    "{\"user_id\": \"" \o p.user_id \o "\", \"node_id\": \"" \o p.node_id
      \o "\", \"secret_key\": \"" \o p.secret_key
      \o "\", \"operation\": \"" \o p.operation \o "\"}"

\* json.dumps of the one-entry dict given to set_node_params.
json_dumps_data(d) == "{\"" \o d.key \o "\": \"" \o d.val \o "\"}"

\* The pieces a str of the bodies above can have around a key.
Affixes == {"", "no ", ", request_id or request_status",
            "no status, ", " or request_status",
            "no status, request_id or "}

\* key in v.  ok = FALSE is the TypeError Python raises for a value that
\* is no container (int, bool, None).
PyContains(key, v) ==
    CASE v.t = "dict" -> [ok |-> TRUE, val |-> \E p \in v.m : p[1] = key]
      [] v.t = "list" ->
            [ok |-> TRUE, val |-> \E i \in 1..Len(v.a) : v.a[i] = key]
      [] v.t = "str" ->
            [ok |-> TRUE,
             val |-> \E pre \in Affixes, post \in Affixes :
                        v.s = pre \o key \o post]
      [] OTHER -> [ok |-> FALSE, val |-> FALSE]

\* v[key] for a str key that PyContains found.  ok = FALSE is the TypeError
\* Python raises for a list or a str indexed by a str.
PyGetItem(v, key) ==
    IF v.t = "dict"
    THEN [ok |-> TRUE,
          val |-> PyStr((CHOOSE p \in v.m : p[1] = key)[2])]
    ELSE [ok |-> FALSE, val |-> None]

-----------------------------------------------------------------------------
(* The transport: requests.get / requests.put                              *)

\* What a transport call ends with: an exception (exc) or a response
\* (exc = "").
Raised(e) == [exc |-> e, status_code |-> 0, text |-> ""]
Response(code, text) == [exc |-> "", status_code |-> code, text |-> text]
NoOutcome == [exc |-> "", status_code |-> 0, text |-> ""]

Outcomes ==
    {Raised(e) : e \in TransportExceptions}
      \cup {Response(code, text) : code \in StatusCodes, text \in Bodies}

\* The outcomes used where two callers share the client.
ConcOutcomes ==
    { Raised("requests.SSLError"), Raised("requests.TooManyRedirects"),
      Response(200, "{\"request_id\": \"req-42\"}"),
      Response(200, "{\"request_status\": \"confirmed\"}"),
      Response(200, "{\"status\": \"failure\"}"),
      Response(404, "<html>Bad Gateway</html>") }

\* The classes of the exceptions an except clause can name, per exception
\* (requests.exceptions: SSLError and ProxyError are ConnectionErrors).
Bases(e) ==
    CASE e = "requests.SSLError" ->
            {"requests.SSLError", "requests.ConnectionError",
             "requests.RequestException", "Exception"}
      [] e = "requests.ConnectionError" ->
            {"requests.ConnectionError", "requests.RequestException",
             "Exception"}
      [] e = "requests.ProxyError" ->
            {"requests.ProxyError", "requests.ConnectionError",
             "requests.RequestException", "Exception"}
      [] e = "requests.ChunkedEncodingError" ->
            {"requests.ChunkedEncodingError", "requests.RequestException",
             "Exception"}
      [] e = "requests.TooManyRedirects" ->
            {"requests.TooManyRedirects", "requests.RequestException",
             "Exception"}
      [] e = "requests.HTTPError" ->
            {"requests.HTTPError", "requests.RequestException", "Exception"}
      [] OTHER -> {e, "Exception"}

IsInstance(e, class) == class \in Bases(e)

\* response.raise_for_status(): an HTTPError for 4xx and 5xx, nothing else.
raise_for_status(response) ==
    IF 400 <= response.status_code /\ response.status_code < 600
    THEN "requests.HTTPError"
    ELSE ""

\* str(e) of the HTTPError raise_for_status builds.
http_error_msg(response) ==
    ToString(response.status_code)
      \o (IF response.status_code < 500 THEN " Client Error"
                                        ELSE " Server Error")

\* The exception the try block of a method ends with ("" when it ends
\* normally): the transport's, or raise_for_status's on the response.
TryBlock(outcome) ==
    IF outcome.exc # "" THEN outcome.exc ELSE raise_for_status(outcome)

-----------------------------------------------------------------------------
(* How a call ends                                                         *)

Return(v) == [kind |-> "return", value |-> v, exc |-> "", msg |-> ""]
Raise(e, m) == [kind |-> "raise", value |-> None, exc |-> e, msg |-> m]
NoResult == [kind |-> "", value |-> None, exc |-> "", msg |-> ""]

\* raise Exception(response.text): the name response is bound only when
\* the transport call returned; otherwise reading it is an
\* UnboundLocalError raised in place of the Exception.
RaiseResponseText(outcome) ==
    IF outcome.exc = ""
    THEN Raise("Exception", outcome.text)
    ELSE Raise("UnboundLocalError", "")

\* raise <the caught exception>
Reraise(e, outcome) ==
    IF e = "requests.HTTPError"
    THEN Raise(e, http_error_msg(outcome))
    ELSE Raise(e, "")

-----------------------------------------------------------------------------
(* Node.__init__                                                           *)

ContentType == <<"content-type", "application/json">>

\* Variant: the AttributeError is swallowed and the Node kept without its
\* Authorization header.
Node__init__partial(nodeid, session) ==
    [state |-> "ready", nodeid |-> nodeid, session |-> session,
     request_header |->
        IF session.has_id_token
        THEN {ContentType, <<"Authorization", session.id_token>>}
        ELSE {ContentType},
     raised |-> ""]
\* The object Node(nodeid, session) leaves: the Node with its header, or
\* no Node and InvalidClassInput when reading session.id_token is an
\* AttributeError.
Node__init__(nodeid, session) ==
    IF session.has_id_token
    THEN [state |-> "ready", nodeid |-> nodeid, session |-> session,
          request_header |-> {ContentType,
                              <<"Authorization", session.id_token>>},
          raised |-> ""]
    ELSE [state |-> "failed", nodeid |-> nodeid, session |-> session,
          request_header |-> {}, raised |-> "InvalidClassInput"]

NoSession == [has_id_token |-> FALSE, id_token |-> ""]
NoClient == [state |-> "none", nodeid |-> "", session |-> NoSession,
             request_header |-> {}, raised |-> ""]

-----------------------------------------------------------------------------
(* The request each method hands to the transport                          *)

Get(url, self) ==
    [method |-> "GET", url |-> url, data |-> "",
     headers |-> self.request_header, verify |-> CERT_FILE]
Put(url, data, self) ==
    [method |-> "PUT", url |-> url, data |-> data,
     headers |-> self.request_header, verify |-> CERT_FILE]
NoRequest ==
    [method |-> "", url |-> "", data |-> "", headers |-> {}, verify |-> ""]

get_node_status_request(self) ==
    Get(HOST \o "user/nodes/status" \o "?" \o ("nodeid=" \o self.nodeid),
        self)

get_node_config_request(self) ==
    Get(HOST \o "user/nodes/config" \o "?" \o ("nodeid=" \o self.nodeid),
        self)

get_node_params_request(self) ==
    Get(HOST \o "user/nodes/params" \o "?" \o ("nodeid=" \o self.nodeid),
        self)

set_node_params_request(self, data) ==
    Put(HOST \o "user/nodes/params" \o "?" \o ("nodeid=" \o self.nodeid),
        json_dumps_data(data), self)

\* Variant: the user id of an earlier mapping call is remembered.
get_user_id_remembered ==
    IF \E c \in Callers : calls[c].uid # ""
    THEN calls[CHOOSE c \in Callers : calls[c].uid # ""].uid
    ELSE user_id
\* configmanager.Config().get_user_id(): the stored user id, read now.
get_user_id == user_id

user_node_mapping_request(self, secret_key, operation) ==
    Put(HOST \o "user/nodes/mapping",
        json_dumps_payload([user_id |-> get_user_id,
                            node_id |-> self.nodeid,
                            secret_key |-> secret_key,
                            operation |-> operation]),
        self)

add_user_node_mapping_request(self, secret_key) ==
    user_node_mapping_request(self, secret_key, "add")

\* Variant: another operation tag.
remove_user_node_mapping_request_delete(self) ==
    user_node_mapping_request(self, "", "delete")
remove_user_node_mapping_request(self) ==
    user_node_mapping_request(self, "", "remove")

get_mapping_status_request(self, request_id) ==
    Get(HOST \o "user/nodes/mapping" \o "?" \o ("&request_id=" \o request_id),
        self)

-----------------------------------------------------------------------------
(* What each method does once the transport call has ended                 *)

get_node_status_result(outcome) ==
    LET e == TryBlock(outcome)
        j == json_loads(outcome.text)
    IN  IF e # ""
        THEN IF IsInstance(e, "requests.SSLError") THEN Raise("SSLError", "")
             ELSE IF IsInstance(e, "requests.ConnectionError")
                  THEN Raise("NetworkError", "")
             ELSE RaiseResponseText(outcome)
        ELSE IF j.ok THEN Return(j.val) ELSE Raise("JSONDecodeError", "")

get_node_config_result(outcome) ==
    LET e == TryBlock(outcome)
        j == json_loads(outcome.text)
    IN  IF e # ""
        THEN IF IsInstance(e, "requests.SSLError") THEN Raise("SSLError", "")
             ELSE IF IsInstance(e, "requests.ConnectionError")
                  THEN Raise("NetworkError", "")
             ELSE RaiseResponseText(outcome)
        ELSE IF j.ok THEN Return(j.val) ELSE Raise("JSONDecodeError", "")

get_node_params_result(outcome) ==
    LET e == TryBlock(outcome)
        j == json_loads(outcome.text)
        has == PyContains("status", j.val)
        item == PyGetItem(j.val, "status")
    IN  IF e # ""
        THEN IF IsInstance(e, "requests.SSLError") THEN Raise("SSLError", "")
             ELSE IF IsInstance(e, "requests.ConnectionError")
                  THEN Raise("NetworkError", "")
             ELSE RaiseResponseText(outcome)
        ELSE IF ~j.ok THEN Raise("JSONDecodeError", "")
        ELSE IF ~has.ok THEN Raise("TypeError", "")
        ELSE IF has.val /\ ~item.ok THEN Raise("TypeError", "")
        ELSE IF has.val /\ item.val = PyStr("failure") THEN Return(None)
        ELSE Return(j.val)

set_node_params_result(outcome) ==
    LET e == TryBlock(outcome)
    IN  IF e # ""
        THEN IF IsInstance(e, "requests.SSLError") THEN Raise("SSLError", "")
             ELSE IF IsInstance(e, "requests.ConnectionError")
                  THEN Raise("NetworkError", "")
             ELSE RaiseResponseText(outcome)
        ELSE Return(True)

user_node_mapping_result(outcome) ==
    LET e == TryBlock(outcome)
        j == json_loads(outcome.text)
        has == PyContains("request_id", j.val)
        item == PyGetItem(j.val, "request_id")
    IN  IF e # ""
        THEN IF IsInstance(e, "requests.SSLError") THEN Raise("SSLError", "")
             ELSE IF IsInstance(e, "requests.ConnectionError")
                  THEN Raise("NetworkError", "")
             ELSE RaiseResponseText(outcome)
        ELSE IF ~j.ok THEN Raise("JSONDecodeError", "")
        ELSE IF ~has.ok THEN Raise("TypeError", "")
        ELSE IF has.val
             THEN IF item.ok THEN Return(item.val) ELSE Raise("TypeError", "")
        ELSE Return(None)

\* Variant: the ConnectionError clause ahead of the SSLError clause.
get_mapping_status_result_swapped(outcome) ==
    LET e == TryBlock(outcome)
        j == json_loads(outcome.text)
        has == PyContains("request_status", j.val)
        item == PyGetItem(j.val, "request_status")
    IN  IF e # ""
        THEN IF IsInstance(e, "requests.ConnectionError")
             THEN Raise("NetworkError", "")
             ELSE IF IsInstance(e, "requests.SSLError")
                  THEN Raise("SSLError", "")
             ELSE Reraise(e, outcome)
        ELSE IF ~j.ok THEN Raise("JSONDecodeError", "")
        ELSE IF ~has.ok THEN Raise("TypeError", "")
        ELSE IF has.val
             THEN IF item.ok THEN Return(item.val) ELSE Raise("TypeError", "")
        ELSE Return(None)
get_mapping_status_result(outcome) ==
    LET e == TryBlock(outcome)
        j == json_loads(outcome.text)
        has == PyContains("request_status", j.val)
        item == PyGetItem(j.val, "request_status")
    IN  IF e # ""
        THEN IF IsInstance(e, "requests.SSLError") THEN Raise("SSLError", "")
             ELSE IF IsInstance(e, "requests.ConnectionError")
                  THEN Raise("NetworkError", "")
             ELSE Reraise(e, outcome)
        ELSE IF ~j.ok THEN Raise("JSONDecodeError", "")
        ELSE IF ~has.ok THEN Raise("TypeError", "")
        ELSE IF has.val
             THEN IF item.ok THEN Return(item.val) ELSE Raise("TypeError", "")
        ELSE Return(None)

-----------------------------------------------------------------------------
(* Calls                                                                   *)

NoArg == [secret_key |-> "", request_id |-> "", data |-> [key |-> "", val |-> ""]]

Idle ==
    [pc |-> "idle", op |-> "", arg |-> NoArg, uid |-> "",
     request |-> NoRequest, nreq |-> 0, outcome |-> NoOutcome,
     result |-> NoResult]

\* The method has built its request and is in requests.get / requests.put.
\* uid is the stored user id at this moment, for the methods that read it.
Begin(op, arg, uid, request) ==
    [pc |-> "sent", op |-> op, arg |-> arg, uid |-> uid,
     request |-> request, nreq |-> 1, outcome |-> NoOutcome,
     result |-> NoResult]

\* Variant: a failed call issues its request once more.
FinishRetrying(call, outcome, result) ==
    IF result.kind = "raise" /\ call.nreq = 1
    THEN [call EXCEPT !.nreq = 2]
    ELSE [call EXCEPT !.pc = "done", !.outcome = outcome, !.result = result]
\* The method returns or raises.
Finish(call, outcome, result) ==
    [call EXCEPT !.pc = "done", !.outcome = outcome, !.result = result]

CanCall(c) == client.state = "ready" /\ calls[c].pc \in {"idle", "done"}
InCall(c, op) == calls[c].pc = "sent" /\ calls[c].op = op

-----------------------------------------------------------------------------
(* Actions                                                                 *)

Init ==
    /\ client = NoClient
    /\ ctor = [nodeid |-> "", session |-> NoSession]
    /\ user_id \in UserIds
    /\ calls = [c \in Callers |-> Idle]
    /\ mapped = FALSE

\* Node(nodeid, session)
Node(nodeid, session) ==
    /\ client.state \in {"none", "failed"}
    /\ ctor' = [nodeid |-> nodeid, session |-> session]
    /\ client' = Node__init__(nodeid, session)
    /\ UNCHANGED <<user_id, calls, mapped>>

\* The identity store comes to hold another user id (another login).
SetUserId(u) ==
    /\ u # user_id
    /\ user_id' = u
    /\ UNCHANGED <<client, ctor, calls, mapped>>

get_node_status(c) ==
    /\ CanCall(c)
    /\ calls' = [calls EXCEPT ![c] =
                    Begin("get_node_status", NoArg, "",
                          get_node_status_request(client))]
    /\ UNCHANGED <<client, ctor, user_id, mapped>>

get_node_status_returns(c, outcome) ==
    /\ InCall(c, "get_node_status")
    /\ calls' = [calls EXCEPT ![c] =
                    Finish(@, outcome, get_node_status_result(outcome))]
    /\ UNCHANGED <<client, ctor, user_id, mapped>>

get_node_config(c) ==
    /\ CanCall(c)
    /\ calls' = [calls EXCEPT ![c] =
                    Begin("get_node_config", NoArg, "",
                          get_node_config_request(client))]
    /\ UNCHANGED <<client, ctor, user_id, mapped>>

get_node_config_returns(c, outcome) ==
    /\ InCall(c, "get_node_config")
    /\ calls' = [calls EXCEPT ![c] =
                    Finish(@, outcome, get_node_config_result(outcome))]
    /\ UNCHANGED <<client, ctor, user_id, mapped>>

get_node_params(c) ==
    /\ CanCall(c)
    /\ calls' = [calls EXCEPT ![c] =
                    Begin("get_node_params", NoArg, "",
                          get_node_params_request(client))]
    /\ UNCHANGED <<client, ctor, user_id, mapped>>

get_node_params_returns(c, outcome) ==
    /\ InCall(c, "get_node_params")
    /\ calls' = [calls EXCEPT ![c] =
                    Finish(@, outcome, get_node_params_result(outcome))]
    /\ UNCHANGED <<client, ctor, user_id, mapped>>

set_node_params(c, data) ==
    /\ CanCall(c)
    /\ calls' = [calls EXCEPT ![c] =
                    Begin("set_node_params", [NoArg EXCEPT !.data = data], "",
                          set_node_params_request(client, data))]
    /\ UNCHANGED <<client, ctor, user_id, mapped>>

set_node_params_returns(c, outcome) ==
    /\ InCall(c, "set_node_params")
    /\ calls' = [calls EXCEPT ![c] =
                    Finish(@, outcome, set_node_params_result(outcome))]
    /\ UNCHANGED <<client, ctor, user_id, mapped>>

add_user_node_mapping(c, secret_key) ==
    /\ CanCall(c)
    /\ calls' = [calls EXCEPT ![c] =
                    Begin("add_user_node_mapping",
                          [NoArg EXCEPT !.secret_key = secret_key], user_id,
                          add_user_node_mapping_request(client, secret_key))]
    /\ mapped' = TRUE
    /\ UNCHANGED <<client, ctor, user_id>>

add_user_node_mapping_returns(c, outcome) ==
    /\ InCall(c, "add_user_node_mapping")
    /\ calls' = [calls EXCEPT ![c] =
                    Finish(@, outcome, user_node_mapping_result(outcome))]
    /\ UNCHANGED <<client, ctor, user_id, mapped>>

\* Variant: the call leaves the user id in the shared header.
remove_user_node_mapping_keeping_user(c) ==
    /\ CanCall(c)
    /\ calls' = [calls EXCEPT ![c] =
                    Begin("remove_user_node_mapping", NoArg, user_id,
                          remove_user_node_mapping_request(client))]
    /\ mapped' = TRUE
    /\ client' = [client EXCEPT
                     !.request_header = @ \cup {<<"user_id", user_id>>}]
    /\ UNCHANGED <<ctor, user_id>>
remove_user_node_mapping(c) ==
    /\ CanCall(c)
    /\ calls' = [calls EXCEPT ![c] =
                    Begin("remove_user_node_mapping", NoArg, user_id,
                          remove_user_node_mapping_request(client))]
    /\ mapped' = TRUE
    /\ UNCHANGED <<client, ctor, user_id>>

remove_user_node_mapping_returns(c, outcome) ==
    /\ InCall(c, "remove_user_node_mapping")
    /\ calls' = [calls EXCEPT ![c] =
                    Finish(@, outcome, user_node_mapping_result(outcome))]
    /\ UNCHANGED <<client, ctor, user_id, mapped>>

get_mapping_status(c, request_id) ==
    /\ CanCall(c)
    /\ calls' = [calls EXCEPT ![c] =
                    Begin("get_mapping_status",
                          [NoArg EXCEPT !.request_id = request_id], "",
                          get_mapping_status_request(client, request_id))]
    /\ UNCHANGED <<client, ctor, user_id, mapped>>

get_mapping_status_returns(c, outcome) ==
    /\ InCall(c, "get_mapping_status")
    /\ calls' = [calls EXCEPT ![c] =
                    Finish(@, outcome, get_mapping_status_result(outcome))]
    /\ UNCHANGED <<client, ctor, user_id, mapped>>

\* One step of the callers in C, the transport ending calls with Outs.
Step(C, Outs) ==
    \/ \E n \in NodeIds, s \in Sessions : Node(n, s)
    \/ \E u \in UserIds : SetUserId(u)
    \/ \E c \in C : get_node_status(c)
    \/ \E c \in C, o \in Outs : get_node_status_returns(c, o)
    \/ \E c \in C : get_node_config(c)
    \/ \E c \in C, o \in Outs : get_node_config_returns(c, o)
    \/ \E c \in C : get_node_params(c)
    \/ \E c \in C, o \in Outs : get_node_params_returns(c, o)
    \/ \E c \in C, d \in ParamData : set_node_params(c, d)
    \/ \E c \in C, o \in Outs : set_node_params_returns(c, o)
    \/ \E c \in C, k \in SecretKeys : add_user_node_mapping(c, k)
    \/ \E c \in C, o \in Outs : add_user_node_mapping_returns(c, o)
    \/ \E c \in C : remove_user_node_mapping(c)
    \/ \E c \in C, o \in Outs : remove_user_node_mapping_returns(c, o)
    \/ \E c \in C, r \in RequestIds : get_mapping_status(c, r)
    \/ \E c \in C, o \in Outs : get_mapping_status_returns(c, o)

\* One caller, every outcome of the transport.
Next == Step(SeqCallers, Outcomes)
Spec == Init /\ [][Next]_vars

\* Two callers sharing the client.
NextConc == Step(Callers, ConcOutcomes)
SpecConc == Init /\ [][NextConc]_vars

-----------------------------------------------------------------------------
(* Properties                                                              *)

Done(c) == calls[c].pc = "done"
Answered(c) == Done(c) /\ calls[c].outcome.exc = ""
Is2xx(c) == calls[c].outcome.status_code \in 200..299
Decoded(c) == json_loads(calls[c].outcome.text).val
MappingOps == {"add_user_node_mapping", "remove_user_node_mapping"}
HasField(v, key) == v.t = "dict" /\ \E p \in v.m : p[1] = key

\* C1: every call that ends either returns or raises one of SSLError,
\* NetworkError or the generic HTTP error (the generic Exception, or the
\* transport's HTTPError); nothing else reaches the caller.
C1_OnlyTaxonomyErrors ==
    \A c \in Callers :
        Done(c) =>
            \/ calls[c].result.kind = "return"
            \/ calls[c].result.exc \in
                 {"SSLError", "NetworkError", "Exception",
                  "requests.HTTPError"}

\* C2: for a 2xx response with a JSON body, get_node_params returns None
\* exactly when the decoded body has status == "failure", and returns the
\* decoded body unchanged otherwise, without raising.
C2_ParamsNoneIffFailure ==
    \A c \in Callers :
        ( /\ Answered(c) /\ calls[c].op = "get_node_params"
          /\ Is2xx(c) /\ calls[c].outcome.text \in JsonBodies )
        => calls[c].result =
              IF Decoded(c).t = "dict"
                 /\ <<"status", "failure">> \in Decoded(c).m
              THEN Return(None)
              ELSE Return(Decoded(c))

\* C3: a response whose status is not 2xx makes every call raise the
\* generic HTTP error carrying the raw response body.
C3_Non2xxRaisesWithBody ==
    \A c \in Callers :
        (Answered(c) /\ ~Is2xx(c))
        => /\ calls[c].result.kind = "raise"
           /\ calls[c].result.exc \in {"Exception", "requests.HTTPError"}
           /\ calls[c].result.msg = calls[c].outcome.text

\* C4: in every method a TLS failure of the transport raises SSLError and
\* a plain connection failure raises NetworkError, never the other.
C4_TlsAndNetworkDistinct ==
    \A c \in Callers :
        Done(c) =>
            /\ calls[c].outcome.exc = "requests.SSLError"
                 => calls[c].result = Raise("SSLError", "")
            /\ calls[c].outcome.exc = "requests.ConnectionError"
                 => calls[c].result = Raise("NetworkError", "")

C4_Witness ==
    /\ Done("c1") /\ calls["c1"].op = "get_mapping_status"
    /\ calls["c1"].outcome.exc = "requests.SSLError"
    /\ calls["c1"].result.exc = "SSLError"

\* C5: for a 2xx response with a JSON body of any shape, the mapping calls
\* return None when request_id is absent and get_mapping_status returns
\* None when request_status is absent, without raising.
C5_AbsentFieldGivesNone ==
    \A c \in Callers :
        ( /\ Answered(c) /\ Is2xx(c)
          /\ calls[c].outcome.text \in JsonBodies
          /\ \/ calls[c].op \in MappingOps
                  /\ ~HasField(Decoded(c), "request_id")
             \/ calls[c].op = "get_mapping_status"
                  /\ ~HasField(Decoded(c), "request_status") )
        => calls[c].result = Return(None)

MappingRequest(uid, nodeid, secret_key, operation, headers) ==
    [method |-> "PUT", url |-> HOST \o "user/nodes/mapping",
     data |-> json_dumps_payload([user_id |-> uid, node_id |-> nodeid,
                                  secret_key |-> secret_key,
                                  operation |-> operation]),
     headers |-> headers, verify |-> CERT_FILE]

\* C6: add_user_node_mapping(k) issues a PUT to user/nodes/mapping with
\* operation "add", secret_key k and the client's node id; and
\* remove_user_node_mapping() the same request with operation "remove" and
\* secret_key ""; the two differ in nothing but these two fields.
C6_AddAndRemoveRequests ==
    /\ \A c \in Callers :
          /\ (calls[c].pc # "idle" /\ calls[c].op = "add_user_node_mapping")
               => calls[c].request =
                     MappingRequest(calls[c].uid, ctor.nodeid,
                                    calls[c].arg.secret_key, "add",
                                    client.request_header)
          /\ (calls[c].pc # "idle"
                /\ calls[c].op = "remove_user_node_mapping")
               => calls[c].request =
                     MappingRequest(calls[c].uid, ctor.nodeid, "", "remove",
                                    client.request_header)
    /\ \A c, d \in Callers :
          ( /\ calls[c].pc # "idle" /\ calls[d].pc # "idle"
            /\ calls[c].op = "add_user_node_mapping"
            /\ calls[d].op = "remove_user_node_mapping"
            /\ calls[c].uid = calls[d].uid )
          => [calls[c].request EXCEPT !.data = ""]
                = [calls[d].request EXCEPT !.data = ""]

C6_Witness ==
    /\ calls["c1"].pc # "idle" /\ calls["c1"].op = "add_user_node_mapping"
    /\ calls["c1"].arg.secret_key = "abc123"
    /\ calls["c2"].pc # "idle" /\ calls["c2"].op = "remove_user_node_mapping"
    /\ calls["c1"].uid = calls["c2"].uid

\* C7: the user_id a mapping request carries is the user id the identity
\* store held when that call was made.
C7_UserIdReadAtCallTime ==
    \A c \in Callers :
        (calls[c].pc # "idle" /\ calls[c].op \in MappingOps)
        => \E k \in SecretKeys \cup {""}, o \in {"add", "remove"} :
              calls[c].request.data =
                 json_dumps_payload([user_id |-> calls[c].uid,
                                     node_id |-> client.nodeid,
                                     secret_key |-> k, operation |-> o])

\* Two mapping calls around a change of the stored user id.
C7_Witness ==
    /\ Done("c1") /\ calls["c1"].op = "add_user_node_mapping"
    /\ calls["c2"].pc = "sent" /\ calls["c2"].op = "remove_user_node_mapping"
    /\ calls["c1"].uid = "u1" /\ calls["c2"].uid = "u2" /\ user_id = "u1"

\* C8: a call issues exactly one request, whatever its outcome: none
\* before it starts, one while it waits, still one when it has ended.
C8_OneRequestPerCall ==
    \A c \in Callers :
        /\ calls[c].pc = "idle" => calls[c].nreq = 0
        /\ calls[c].pc = "sent"
             => calls[c].nreq = 1 /\ calls[c].result = NoResult
        /\ calls[c].pc = "done"
             => calls[c].nreq = 1
                  /\ calls[c].result.kind \in {"return", "raise"}

C8_Witness ==
    /\ Done("c1") /\ calls["c1"].nreq = 1
    /\ calls["c1"].result = Raise("NetworkError", "")

\* C9: constructing a client issues no request; it succeeds exactly when
\* the session exposes a token, with the full header, and raises
\* InvalidClassInput otherwise; only a client with the full header is used.
C9_State ==
    /\ client.state = "ready"
         => /\ ctor.session.has_id_token
            /\ client.request_header =
                 {<<"content-type", "application/json">>,
                  <<"Authorization", ctor.session.id_token>>}
    /\ client.state = "failed"
         => /\ ~ctor.session.has_id_token
            /\ client.raised = "InvalidClassInput"
    /\ \A c \in Callers : calls[c].pc # "idle" => client.state = "ready"
C9_Construction ==
    /\ []C9_State
    /\ [][client' # client => calls' = calls]_vars

C9_Witness ==
    /\ client.state = "failed" /\ client.raised = "InvalidClassInput"
    /\ ~ctor.session.has_id_token /\ ctor.nodeid = "abcd1234"

\* C10: once constructed, the node id and the header stay what the
\* constructor set, through every call of every caller; and two calls of
\* the same method with the same arguments (and the same stored user id)
\* issue the same request and, given the same response, end the same way.
C10_NoSharedMutableState ==
    /\ client.state = "ready"
         => /\ client.nodeid = ctor.nodeid
            /\ client.request_header =
                 {<<"content-type", "application/json">>,
                  <<"Authorization", ctor.session.id_token>>}
    /\ \A c, d \in Callers :
          ( /\ calls[c].pc # "idle" /\ calls[d].pc # "idle"
            /\ calls[c].op = calls[d].op /\ calls[c].arg = calls[d].arg
            /\ calls[c].uid = calls[d].uid )
          => /\ calls[c].request = calls[d].request
             /\ (Done(c) /\ Done(d) /\ calls[c].outcome = calls[d].outcome)
                  => calls[c].result = calls[d].result

\* get_mapping_status answered on a client no mapping call was made on,
\* beside a failed call of the other caller.
C10_Witness ==
    /\ ~mapped
    /\ Done("c1") /\ calls["c1"].op = "get_mapping_status"
    /\ calls["c1"].result = Return(PyStr("confirmed"))
    /\ Done("c2") /\ calls["c2"].op = "get_mapping_status"
    /\ calls["c2"].result.kind = "raise"

====
